---- MODULE Spec2Model ----
(***************************************************************************)
(* The discordcrypto element (src/gstdiscordcrypto.c): a GstBaseTransform  *)
(* that seals the payload of every RTP packet with XSalsa20-Poly1305 under *)
(* one of three nonce schemes.  The streaming thread calls                 *)
(* prepare_output_buffer and then transform for every packet; the          *)
(* application may call set_property from any thread at any time, the      *)
(* element takes no lock.                                                  *)
(*                                                                         *)
(* TLC's integers are 32-bit signed, so a guint32 is a pair <<hi, lo>> of  *)
(* 16-bit halves (value hi * 65536 + lo): the width of the counter is kept.*)
(***************************************************************************)
EXTENDS Integers, Sequences, FiniteSets, TLC

VARIABLES
  encryption,     \* filter->encryption
  key,            \* filter->key[32]
  lite_nonce,     \* filter->lite_nonce
  outsize,        \* filter->outsize
  started,        \* the base transform has started the element (start returned TRUE)
  pc,             \* streaming thread: "idle", "prepared" between the two
                  \* callbacks, or "aborted" once abort() has ended the process
  inbuf,          \* bytes of the input packet of the current / last pair of callbacks
  outbuf,         \* cells of the output buffer of the current / last pair of callbacks
  outbox,         \* what crypto_secretbox_easy sealed in the last transform
  flow,           \* GstFlowReturn of the last transform
  last,           \* history: the handler that ran last, its inputs, and whether
                  \* it posted GST_ELEMENT_ERROR (err)
  key_set,        \* history: a key assignment has succeeded
  key_fresh,      \* history: a key assignment succeeded since the last LITE seal
  lite_trailers,  \* history: trailers of the last two successful LITE packets
  sealed,         \* history: counter ranges sealed in LITE mode, per key and pass
  lite_epoch,     \* history: number of times transform reset lite_nonce to 0
  std_first,      \* history: input, key and output of the first STANDARD packet
  mode_set,       \* history: set_property has assigned the encryption mode
  sodium_ok,      \* libsodium has been initialised (sodium_init returned 0)
  lite_count,     \* history: successful LITE encryptions so far, mod 2^32
  mapped,         \* the mappings held on the current input and output buffer
  transforms      \* history: number of packets, or runs of packets, handed to
                  \* the element

vars == <<encryption, key, lite_nonce, outsize, started, pc, inbuf, outbuf,
          outbox, flow, last, key_set, key_fresh, lite_trailers,
          sealed, lite_epoch, std_first, mode_set, sodium_ok, lite_count,
          mapped, transforms>>

filter == <<encryption, key, lite_nonce, outsize>>
history == <<key_set, key_fresh, lite_trailers, sealed, lite_epoch, std_first,
             mode_set>>

---------------------------------------------------------------------------
(* Bounds of the model. *)

MaxTransforms == 3     \* packets, or runs of packets, in one behaviour

---------------------------------------------------------------------------
(* Program constants. *)

RTP_HEADER_SIZE == 12
crypto_secretbox_MACBYTES == 16
crypto_secretbox_NONCEBYTES == 24
KEY_SIZE == 32
LITE_TRAILER_SIZE == 4

\* the enumerators of GstDiscordcryptoPattern, numbered in the order of the
\* pattern_types table, from 0 as a C enum numbers them
GST_DISCORDCRYPTO_XSALSA20_POLY1305 == 0
GST_DISCORDCRYPTO_XSALSA20_POLY1305_SUFFIX == 1
GST_DISCORDCRYPTO_XSALSA20_POLY1305_LITE == 2

GstDiscordcryptoPattern ==
  { GST_DISCORDCRYPTO_XSALSA20_POLY1305,
    GST_DISCORDCRYPTO_XSALSA20_POLY1305_SUFFIX,
    GST_DISCORDCRYPTO_XSALSA20_POLY1305_LITE }

\* 4294967295 as a pair of 16-bit halves
LITE_NONCE_MAX == <<65535, 65535>>

---------------------------------------------------------------------------
(* guint32 arithmetic on pairs of 16-bit halves. *)

U32Zero == <<0, 0>>

\* a < b on guint32
U32Less(a, b) == a[1] < b[1] \/ (a[1] = b[1] /\ a[2] < b[2])

\* a + 1 on guint32 (mod 2^32)
U32Inc(a) ==
  IF a[2] < 65535 THEN <<a[1], a[2] + 1>> ELSE <<(a[1] + 1) % 65536, 0>>

\* a - 1 on guint32 (mod 2^32)
U32Dec(a) ==
  IF a[2] > 0 THEN <<a[1], a[2] - 1>> ELSE <<(a[1] + 65535) % 65536, 65535>>

\* a + b on guint32 (mod 2^32)
U32Add(a, b) ==
  <<(a[1] + b[1] + ((a[2] + b[2]) \div 65536)) % 65536, (a[2] + b[2]) % 65536>>

\* a - b on guint32 (mod 2^32)
U32Sub(a, b) ==
  <<(a[1] - b[1] - (IF a[2] < b[2] THEN 1 ELSE 0) + 65536) % 65536,
    (a[2] - b[2] + 65536) % 65536>>

Swap16(x) == (x % 256) * 256 + (x \div 256)

\* g_htonl on a little-endian host: GUINT32_SWAP_LE_BE
g_htonl(x) == <<Swap16(x[2]), Swap16(x[1])>>

\* the four bytes a guint32 store leaves in memory on a little-endian host
StoreU32(x) == <<x[2] % 256, x[2] \div 256, x[1] % 256, x[1] \div 256>>

\* the guint32 a receiver reads from four bytes in network byte order
ReadBE32(b) == <<b[1] * 256 + b[2], b[3] * 256 + b[4]>>

Zeros(n) == [i \in 1..n |-> 0]


---------------------------------------------------------------------------
(* Inputs: the packets the upstream element pushes, the arrays the         *)
(* application hands to the key property, what the random source returns.  *)

RtpHeader(seq) == <<128, 120, 0, seq, 0, 0, 0, 0, 0, 0, 0, 42>>

\* a 16-byte packet, and a buffer that ends inside the RTP header
Packets ==
  { RtpHeader(1) \o <<222, 173, 190, 239>>, SubSeq(RtpHeader(1), 1, 8) }

KeyFills == {1}
KeyLens == {31, 32, 33}

\* a GstValueArray of n values: the first 32 are fill, the ones after differ;
\* an array of fewer than 32 values holds values of no accepted key
KeyArray(fill, n) ==
  [i \in 1..n |-> IF n < KEY_SIZE THEN fill + 100
                  ELSE IF i <= KEY_SIZE THEN fill ELSE 255]

RandomNonces == { [i \in 1..crypto_secretbox_NONCEBYTES |-> 7],
                  [i \in 1..crypto_secretbox_NONCEBYTES |-> 9] }

\* sodium_init: 0 on success, -1 on failure, 1 when already initialised
SodiumInitResults == {0, 1, -1}

\* the counter value a run of LITE packets stops at: 4294967295
LiteRunTarget == LITE_NONCE_MAX

---------------------------------------------------------------------------
(* Buffers.  A cell of the output buffer is <<"uninit", 0>> (memory as     *)
(* gst_buffer_new_allocate returns it), <<"byte", v>>, or <<"box", i>>:    *)
(* byte i of the secretbox that this transform call computed.              *)

Uninit == <<"uninit", 0>>
ByteCells(bytes) == [i \in 1..Len(bytes) |-> <<"byte", bytes[i]>>]
CellBytes(cells) == [i \in 1..Len(cells) |-> cells[i][2]]
IsBytes(cells) == \A i \in 1..Len(cells) : cells[i][1] = "byte"

gst_buffer_new_allocate(size) == [i \in 1..size |-> Uninit]

\* memcpy(buf + off, src, Len(src)), on the cells that lie inside buf
Memcpy(buf, off, src) ==
  [i \in 1..Len(buf) |->
     IF i > off /\ i <= off + Len(src) THEN src[i - off] ELSE buf[i]]

\* the memcpy above touches memory outside buf
OutOfBounds(buf, off, src) == off < 0 \/ off + Len(src) > Len(buf)

NoBox == [m |-> <<>>, n |-> <<>>, k |-> <<>>]
NoOutput == [inp |-> <<>>, key |-> <<>>, cells |-> <<>>, box |-> NoBox]

\* crypto_secretbox_easy(c, m, mlen, n, k): mlen + 16 bytes, the MAC first,
\* which are a function of (m, n, k)
crypto_secretbox_easy(m, n, k) == [m |-> m, n |-> n, k |-> k]
SecretboxCells(mlen) ==
  [i \in 1..(mlen + crypto_secretbox_MACBYTES) |-> <<"box", i - 1>>]

---------------------------------------------------------------------------
(* gst_discord_crypto_init *)

Init ==
  /\ encryption = 0
  /\ key = Zeros(KEY_SIZE)
  /\ lite_nonce = U32Zero
  /\ outsize = 0
  /\ started = FALSE
  /\ pc = "idle"
  /\ inbuf = <<>>
  /\ outbuf = <<>>
  /\ outbox = NoBox
  /\ flow = "none"
  /\ last = [op |-> "init", enc |-> 0, len |-> 0, in_ok |-> TRUE,
             out_ok |-> TRUE, fresh |-> FALSE, oob |-> FALSE, err |-> FALSE]
  /\ key_set = FALSE
  /\ key_fresh = FALSE
  /\ lite_trailers = <<>>
  /\ sealed = <<>>
  /\ lite_epoch = 0
  /\ std_first = NoOutput
  /\ mode_set = FALSE
  /\ sodium_ok = FALSE
  /\ lite_count = U32Zero
  /\ mapped = {}
  /\ transforms = 0

\* the process has not been ended by abort()
Alive == pc # "aborted"

Op(name, enc, len) ==
  [op |-> name, enc |-> enc, len |-> len, in_ok |-> TRUE, out_ok |-> TRUE,
   fresh |-> key_fresh, oob |-> FALSE, err |-> FALSE]

---------------------------------------------------------------------------
(* gst_discord_crypto_set_property *)

SetEncryption(v) ==
  /\ Alive
  /\ encryption' = v
  /\ mode_set' = TRUE
  /\ last' = Op("set_encryption", v, 0)
  /\ UNCHANGED <<key, lite_nonce, outsize, started, pc, inbuf, outbuf, outbox,
                 flow, key_set, key_fresh, lite_trailers, sealed, lite_epoch,
                 std_first, transforms, sodium_ok, lite_count, mapped>>

\* the size test of PROP_KEY
KeyRejected(array) == Len(array) < KEY_SIZE

\* KeyAfterSet with the values copied before the size is tested
KeyAfterSet_CopyFirst(old, array) ==
  [i \in 1..KEY_SIZE |-> IF i <= Len(array) THEN array[i] ELSE old[i]]

\* filter->key after set_property(PROP_KEY, array)
KeyAfterSet(old, array) ==
  IF KeyRejected(array) THEN old ELSE [i \in 1..KEY_SIZE |-> array[i]]

\* filter->lite_nonce after set_property(PROP_KEY, array): not assigned
LiteNonceAfterSetKey(c, array) == c

SetKey(fill, n) ==
  LET array == KeyArray(fill, n) IN
  /\ Alive
  /\ key' = KeyAfterSet(key, array)
  /\ lite_nonce' = LiteNonceAfterSetKey(lite_nonce, array)
  /\ key_set' = (key_set \/ ~KeyRejected(array))
  /\ key_fresh' = (key_fresh \/ ~KeyRejected(array))
  /\ last' = [Op("set_key", encryption, n) EXCEPT !.err = KeyRejected(array)]
  /\ UNCHANGED <<encryption, outsize, started, pc, inbuf, outbuf, outbox, flow,
                 lite_trailers, sealed, lite_epoch, std_first, mode_set,
                 transforms, sodium_ok, lite_count, mapped>>

---------------------------------------------------------------------------
(* gst_discord_crypto_get_property *)

\* the enum value g_value_set_enum hands back for PROP_ENCRYPTION
GetEncryption ==
  /\ Alive
  /\ last' = Op("get_encryption", encryption, 0)
  /\ UNCHANGED <<filter, started, pc, inbuf, outbuf, outbox, flow, history,
                 transforms, sodium_ok, lite_count, mapped>>

\* PROP_KEY: the 32 values of filter->key are appended to the array
GetKey ==
  /\ Alive
  /\ last' = Op("get_key", encryption, Len(key))
  /\ UNCHANGED <<filter, started, pc, inbuf, outbuf, outbox, flow, history,
                 transforms, sodium_ok, lite_count, mapped>>

---------------------------------------------------------------------------
(* gst_discord_crypto_start, gst_discord_crypto_stop *)

\* StartReturns with the result of sodium_init ignored
StartReturns_Ignored(rc) == TRUE

\* the gboolean start returns for the result rc of sodium_init
StartReturns(rc) == rc # -1

Start(rc) ==
  /\ Alive
  /\ ~started
  /\ (rc = 1) <=> sodium_ok
  /\ started' = StartReturns(rc)
  /\ sodium_ok' = (sodium_ok \/ rc = 0)
  /\ last' = Op("start", encryption, rc)
  /\ UNCHANGED <<filter, pc, inbuf, outbuf, outbox, flow, history,
                 transforms, lite_count, mapped>>

Stop ==
  /\ started
  /\ pc = "idle"
  /\ started' = FALSE
  /\ last' = Op("stop", encryption, 0)
  /\ UNCHANGED <<filter, pc, inbuf, outbuf, outbox, flow, history,
                 transforms, sodium_ok, lite_count, mapped>>

---------------------------------------------------------------------------
(* gst_discord_crypto_prepare_output_buffer *)

\* filter->outsize after the switch; old when no case matches
OutSize(enc, in_size, old) ==
  CASE enc = GST_DISCORDCRYPTO_XSALSA20_POLY1305 ->
         in_size + crypto_secretbox_MACBYTES
    [] enc = GST_DISCORDCRYPTO_XSALSA20_POLY1305_SUFFIX ->
         in_size + crypto_secretbox_MACBYTES + crypto_secretbox_NONCEBYTES
    [] enc = GST_DISCORDCRYPTO_XSALSA20_POLY1305_LITE ->
         in_size + crypto_secretbox_MACBYTES + LITE_TRAILER_SIZE
    [] OTHER -> old

PrepareOutputBuffer(p) ==
  /\ started
  /\ pc = "idle"
  /\ transforms < MaxTransforms
  /\ outsize' = OutSize(encryption, Len(p), outsize)
  /\ inbuf' = p
  /\ outbuf' = gst_buffer_new_allocate(outsize')
  /\ outbox' = NoBox
  /\ flow' = "none"
  /\ pc' = "prepared"
  /\ transforms' = transforms + 1
  /\ mapped' = {}
  /\ last' = Op("prepare_output_buffer", encryption, Len(p))
  /\ UNCHANGED <<encryption, key, lite_nonce, started, history, sodium_ok,
                 lite_count>>

---------------------------------------------------------------------------
(* gst_discord_crypto_transform *)

\* the test before the header copy: a buffer that failed to map has data NULL
MapFailed(in_ok, out_ok) == ~in_ok \/ ~out_ok

\* NextLiteNonce without the reset at 4294967295
NextLiteNonce_NoWrap(c) ==
  IF U32Less(c, LITE_NONCE_MAX) THEN U32Inc(c) ELSE c

\* NextLiteNonce without the increment
NextLiteNonce_NoIncrement(c) ==
  IF U32Less(c, LITE_NONCE_MAX) THEN c ELSE U32Zero

\* the update of filter->lite_nonce in the LITE case
NextLiteNonce(c) ==
  IF U32Less(c, LITE_NONCE_MAX) THEN U32Inc(c) ELSE U32Zero

\* nonce[24] as the switch leaves it
Nonce(enc, c, inp, rnd) ==
  CASE enc = GST_DISCORDCRYPTO_XSALSA20_POLY1305 ->
         SubSeq(inp, 1, RTP_HEADER_SIZE)
           \o Zeros(crypto_secretbox_NONCEBYTES - RTP_HEADER_SIZE)
    [] enc = GST_DISCORDCRYPTO_XSALSA20_POLY1305_SUFFIX -> rnd
    [] enc = GST_DISCORDCRYPTO_XSALSA20_POLY1305_LITE ->
         StoreU32(g_htonl(c)) \o Zeros(crypto_secretbox_NONCEBYTES - 4)
    [] OTHER -> Zeros(crypto_secretbox_NONCEBYTES)

\* the bytes memcpy'd behind the secretbox, and where (offset from outmap.data)
Trailer(enc, nonce) ==
  CASE enc = GST_DISCORDCRYPTO_XSALSA20_POLY1305_SUFFIX -> nonce
    [] enc = GST_DISCORDCRYPTO_XSALSA20_POLY1305_LITE -> SubSeq(nonce, 1, 4)
    [] OTHER -> <<>>
TrailerOffset(enc, size) ==
  CASE enc = GST_DISCORDCRYPTO_XSALSA20_POLY1305_SUFFIX -> size - 24
    [] enc = GST_DISCORDCRYPTO_XSALSA20_POLY1305_LITE -> size - 4
    [] OTHER -> 0

\* outmap after memcpy(outmap.data, inmap.data, RTP_HEADER_SIZE); what the
\* copy reads behind the end of a shorter input is indeterminate
HeaderCopied(buf, inp) ==
  Memcpy(buf, 0, [i \in 1..RTP_HEADER_SIZE |->
                    IF i <= Len(inp) THEN <<"byte", inp[i]>> ELSE Uninit])

\* gsize data_size = inmap.size - RTP_HEADER_SIZE, on 64-bit unsigned
\* integers: <<0, d>> is d, and <<1, d>> is 2^64 - d, the value the
\* subtraction wraps to when inmap.size is less than 12
DataSize(in_size) ==
  IF in_size >= RTP_HEADER_SIZE
  THEN <<0, in_size - RTP_HEADER_SIZE>>
  ELSE <<1, RTP_HEADER_SIZE - in_size>>

\* crypto_secretbox_easy calls sodium_misuse, which ends the process with
\* abort(), when mlen > crypto_secretbox_MESSAGEBYTES_MAX = 2^64 - 1 - 16
SodiumMisuse(mlen) == mlen[1] = 1 /\ mlen[2] <= crypto_secretbox_MACBYTES

\* the payload handed to crypto_secretbox_easy: in_data, data_size
InData(inp) == SubSeq(inp, RTP_HEADER_SIZE + 1, Len(inp))

\* what a transform that passed the NULL test leaves in the output buffer,
\* and what it sealed: mode enc, key k, counter c, filter->outsize size
Encrypted(enc, k, c, size, inp, buf, rnd) ==
  LET nonce == Nonce(enc, c, inp, rnd)
      b1 == HeaderCopied(buf, inp)
      b2 == Memcpy(b1, RTP_HEADER_SIZE, SecretboxCells(Len(InData(inp))))
      tr == ByteCells(Trailer(enc, nonce))
      off == TrailerOffset(enc, size)
  IN [cells |-> Memcpy(b2, off, tr),
      box |-> crypto_secretbox_easy(InData(inp), nonce, k),
      oob |-> \/ OutOfBounds(buf, RTP_HEADER_SIZE,
                             SecretboxCells(Len(InData(inp))))
              \/ OutOfBounds(buf, off, tr)]

\* TransformLiteNonce with the counter advanced in every mode
TransformLiteNonce_AnyMode(failed, enc, c) ==
  IF failed THEN c ELSE NextLiteNonce(c)

\* TransformLiteNonce with the counter updated before the NULL test
TransformLiteNonce_BeforeTest(failed, enc, c) ==
  IF enc = GST_DISCORDCRYPTO_XSALSA20_POLY1305_LITE
  THEN NextLiteNonce(c) ELSE c

\* filter->lite_nonce when transform returns
TransformLiteNonce(failed, enc, c) ==
  IF failed THEN c
  ELSE IF enc = GST_DISCORDCRYPTO_XSALSA20_POLY1305_LITE
       THEN NextLiteNonce(c) ELSE c

\* TransformCells with the header copy made before the NULL test
TransformCells_HeaderFirst(in_ok, out_ok, buf, inp, cells) ==
  IF MapFailed(in_ok, out_ok)
  THEN (IF out_ok THEN HeaderCopied(buf, inp) ELSE buf)
  ELSE cells

\* the output buffer when transform returns
TransformCells(in_ok, out_ok, buf, inp, cells) ==
  IF MapFailed(in_ok, out_ok) THEN buf ELSE cells

\* the mappings gst_buffer_map made at entry, and the ones not yet released
\* when transform returns: the error return comes before gst_buffer_unmap
MappedAtEntry(in_ok, out_ok) ==
  (IF in_ok THEN {"inbuf"} ELSE {}) \cup (IF out_ok THEN {"outbuf"} ELSE {})
MappedAtReturn(in_ok, out_ok) ==
  IF MapFailed(in_ok, out_ok) THEN MappedAtEntry(in_ok, out_ok) ELSE {}

\* the last n cells of the output buffer
LastCells(buf, n) == SubSeq(buf, Len(buf) - n + 1, Len(buf))

Last2(s) == IF Len(s) > 2 THEN SubSeq(s, Len(s) - 1, Len(s)) ELSE s

Transform(in_ok, out_ok, rnd) ==
  LET failed == MapFailed(in_ok, out_ok)
      enc == encryption
      r == Encrypted(enc, key, lite_nonce, outsize, inbuf, outbuf, rnd)
      lite == ~failed /\ enc = GST_DISCORDCRYPTO_XSALSA20_POLY1305_LITE
      std == ~failed /\ enc = GST_DISCORDCRYPTO_XSALSA20_POLY1305
      aborts == ~failed /\ SodiumMisuse(DataSize(Len(inbuf)))
  IN
  /\ started
  /\ pc = "prepared"
  /\ \/ /\ aborts
        /\ pc' = "aborted"
        /\ flow' = "aborted"
        /\ last' = [op |-> "transform", enc |-> enc, len |-> Len(inbuf),
                    in_ok |-> in_ok, out_ok |-> out_ok, fresh |-> key_fresh,
                    oob |-> FALSE, err |-> FALSE]
        /\ mapped' = MappedAtEntry(in_ok, out_ok)
        /\ UNCHANGED <<filter, started, inbuf, outbuf, outbox, history,
                       transforms, sodium_ok, lite_count>>
     \/ /\ ~aborts
        /\ flow' = IF failed THEN "GST_FLOW_ERROR" ELSE "GST_FLOW_OK"
        /\ outbuf' = TransformCells(in_ok, out_ok, outbuf, inbuf, r.cells)
        /\ outbox' = IF failed THEN outbox ELSE r.box
        /\ lite_nonce' = TransformLiteNonce(failed, enc, lite_nonce)
        /\ pc' = "idle"
        /\ last' = [op |-> "transform", enc |-> enc, len |-> Len(inbuf),
                    in_ok |-> in_ok, out_ok |-> out_ok, fresh |-> key_fresh,
                    oob |-> ~failed /\ r.oob, err |-> FALSE]
        /\ lite_trailers' =
             IF lite
             THEN Last2(Append(lite_trailers,
                               CellBytes(LastCells(outbuf', LITE_TRAILER_SIZE))))
             ELSE lite_trailers
        /\ sealed' =
             IF lite
             THEN Append(sealed, [key |-> key, lo |-> lite_nonce,
                                  hi |-> lite_nonce, epoch |-> lite_epoch])
             ELSE sealed
        /\ lite_epoch' =
             IF lite /\ lite_nonce' = U32Zero THEN lite_epoch + 1 ELSE lite_epoch
        /\ key_fresh' = (key_fresh /\ ~lite)
        /\ mapped' = MappedAtReturn(in_ok, out_ok)
        /\ lite_count' = IF lite THEN U32Inc(lite_count) ELSE lite_count
        /\ std_first' =
             IF std /\ std_first = NoOutput
             THEN [inp |-> inbuf, key |-> key, cells |-> outbuf', box |-> outbox']
             ELSE std_first
        /\ UNCHANGED <<encryption, key, outsize, started, inbuf, key_set, mode_set,
                       transforms, sodium_ok>>

(* A run of back-to-back packets in LITE mode, each one the pair             *)
(* prepare_output_buffer, transform with both buffers mapped and no          *)
(* set_property in between, from the current counter up to the packet that   *)
(* leaves the counter at LiteRunTarget.  Every packet of the run finds       *)
(* lite_nonce < LiteRunTarget <= 4294967295, so every one of them takes the  *)
(* increment branch; the last packet is computed as Transform computes it.   *)
TransformRun(p) ==
  LET enc == GST_DISCORDCRYPTO_XSALSA20_POLY1305_LITE
      c == U32Dec(LiteRunTarget)   \* the counter the last packet finds
      size == OutSize(enc, Len(p), outsize)
      buf == gst_buffer_new_allocate(size)
      r == Encrypted(enc, key, c, size, p, buf, Zeros(24))
      before == Encrypted(enc, key, U32Dec(c), size, p, buf, Zeros(24))
  IN
  /\ started
  /\ pc = "idle"
  /\ transforms < MaxTransforms
  /\ encryption = enc
  /\ ~SodiumMisuse(DataSize(Len(p)))
  /\ U32Less(lite_nonce, c)
  /\ outsize' = size
  /\ inbuf' = p
  /\ outbuf' = TransformCells(TRUE, TRUE, buf, p, r.cells)
  /\ outbox' = r.box
  /\ flow' = "GST_FLOW_OK"
  /\ lite_nonce' = TransformLiteNonce(FALSE, enc, c)
  /\ last' = [op |-> "transform", enc |-> enc, len |-> Len(p),
              in_ok |-> TRUE, out_ok |-> TRUE, fresh |-> FALSE,
              oob |-> r.oob, err |-> FALSE]
  /\ lite_trailers' =
       << CellBytes(LastCells(before.cells, LITE_TRAILER_SIZE)),
          CellBytes(LastCells(outbuf', LITE_TRAILER_SIZE)) >>
  /\ sealed' = Append(sealed, [key |-> key, lo |-> lite_nonce, hi |-> c,
                               epoch |-> lite_epoch])
  /\ lite_epoch' = IF lite_nonce' = U32Zero THEN lite_epoch + 1 ELSE lite_epoch
  /\ key_fresh' = FALSE
  /\ mapped' = MappedAtReturn(TRUE, TRUE)
  /\ lite_count' = U32Add(lite_count, U32Inc(U32Sub(c, lite_nonce)))
  /\ transforms' = transforms + 1
  /\ UNCHANGED <<encryption, key, started, pc, key_set, std_first, mode_set,
                 sodium_ok>>

---------------------------------------------------------------------------

Next ==
  \/ \E v \in GstDiscordcryptoPattern : SetEncryption(v)
  \/ \E fill \in KeyFills, n \in KeyLens : SetKey(fill, n)
  \/ GetEncryption
  \/ GetKey
  \/ \E rc \in SodiumInitResults : Start(rc)
  \/ Stop
  \/ \E p \in Packets : PrepareOutputBuffer(p)
  \/ \E in_ok \in BOOLEAN, out_ok \in BOOLEAN, rnd \in RandomNonces :
       Transform(in_ok, out_ok, rnd)
  \/ \E p \in Packets : TransformRun(p)

Spec == Init /\ [][Next]_vars

(* The element driven as spec section 4.5 asks of the host: exclusive access *)
(* for the duration of a packet, so no set_property(encryption) falls        *)
(* between prepare_output_buffer and transform.  The element enforces none   *)
(* of it; this specification only tells which failures need the interleaving.*)
NextExclusive ==
  \/ pc = "idle" /\ \E v \in GstDiscordcryptoPattern : SetEncryption(v)
  \/ \E fill \in KeyFills, n \in KeyLens : SetKey(fill, n)
  \/ GetEncryption
  \/ GetKey
  \/ \E rc \in SodiumInitResults : Start(rc)
  \/ Stop
  \/ \E p \in Packets : PrepareOutputBuffer(p)
  \/ \E in_ok \in BOOLEAN, out_ok \in BOOLEAN, rnd \in RandomNonces :
       Transform(in_ok, out_ok, rnd)
  \/ \E p \in Packets : TransformRun(p)

SpecExclusive == Init /\ [][NextExclusive]_vars

---------------------------------------------------------------------------
(* What a receiver does with an output packet. *)

IsTransform == last.op = "transform"
Succeeded == IsTransform /\ flow = "GST_FLOW_OK"
Failed == IsTransform /\ flow = "GST_FLOW_ERROR"
LiteSucceeded ==
  Succeeded /\ last.enc = GST_DISCORDCRYPTO_XSALSA20_POLY1305_LITE

\* the last four bytes of the output packet
LiteTrailer == CellBytes(LastCells(outbuf, LITE_TRAILER_SIZE))

AuthFailure == <<-1>>

\* crypto_secretbox_open_easy on the cells c: the plaintext when c is the
\* intact secretbox of the last transform and nonce and key are the ones it
\* was sealed with, an authentication failure otherwise
SecretboxOpen(c, n, k) ==
  IF /\ Len(c) >= crypto_secretbox_MACBYTES
     /\ c = SecretboxCells(Len(c) - crypto_secretbox_MACBYTES)
     /\ n = outbox.n
     /\ k = outbox.k
  THEN outbox.m ELSE AuthFailure

\* the cells of the output packet the nonce is rebuilt from, by mode
NonceCells(enc, out) ==
  CASE enc = GST_DISCORDCRYPTO_XSALSA20_POLY1305 ->
         SubSeq(out, 1, RTP_HEADER_SIZE)
    [] enc = GST_DISCORDCRYPTO_XSALSA20_POLY1305_SUFFIX ->
         LastCells(out, crypto_secretbox_NONCEBYTES)
    [] OTHER -> LastCells(out, LITE_TRAILER_SIZE)

\* the nonce rebuilt from the output packet alone
ReconstructedNonce(enc, out) ==
  LET b == CellBytes(NonceCells(enc, out))
  IN b \o Zeros(crypto_secretbox_NONCEBYTES - Len(b))

\* the ranges of two LITE seals have no counter value in common
Disjoint(a, b) == U32Less(a.hi, b.lo) \/ U32Less(b.hi, a.lo)

---------------------------------------------------------------------------
(* C1: in LITE mode the trailers of two consecutive successful encryptions  *)
(* are t and (t + 1) mod 2^32 as big-endian integers, FF FF FF FF is        *)
(* followed by 00 00 00 00, and the counter stays within 0..2^32-1.         *)
C1_LiteTrailersConsecutive ==
  /\ lite_nonce[1] \in 0..65535 /\ lite_nonce[2] \in 0..65535
  /\ Len(lite_trailers) = 2 =>
       ReadBE32(lite_trailers[2]) = U32Inc(ReadBE32(lite_trailers[1]))

C1_WrapReached ==
  lite_trailers = << <<255, 255, 255, 255>>, <<0, 0, 0, 0>> >>

(* C2: the first LITE packet encrypted after a successful key assignment    *)
(* carries trailer 00 00 00 00, whatever was encrypted before.              *)
C2_KeyAssignmentResetsCounter ==
  (LiteSucceeded /\ last.fresh) => LiteTrailer = <<0, 0, 0, 0>>

(* C3: no two packets sealed in LITE mode under the same key value use the  *)
(* same nonce.                                                              *)
C3_NonceNeverReusedUnderKey ==
  \A i, j \in 1..Len(sealed) :
    (i < j /\ sealed[i].key = sealed[j].key) => Disjoint(sealed[i], sealed[j])

(* C3 as amended: no two packets sealed in LITE mode under the same key     *)
(* value between two resets of the counter to 0 by transform (a pass of the *)
(* counter from 0 to 2^32-1) use the same nonce.                            *)
C3_NonceUniqueWithinPass ==
  \A i, j \in 1..Len(sealed) :
    (i < j /\ sealed[i].key = sealed[j].key
           /\ sealed[i].epoch = sealed[j].epoch)
      => Disjoint(sealed[i], sealed[j])

C3_SameKeySamePassAfterWrap ==
  /\ lite_epoch = 1
  /\ \E i, j \in 1..Len(sealed) :
       /\ i < j
       /\ sealed[i].key = sealed[j].key
       /\ sealed[i].epoch = sealed[j].epoch

(* C4: setting the key with any number of values other than 32 is rejected  *)
(* with an error.                                                           *)
C4_KeyLengthMustBe32 ==
  (last.op = "set_key" /\ last.len # KEY_SIZE) => last.err

(* C5: a transform attempted when no key assignment has succeeded returns   *)
(* an error and seals nothing.                                              *)
C5_NotConfiguredIsAnError ==
  (IsTransform /\ ~key_set) => (flow = "GST_FLOW_ERROR" /\ outbox = NoBox)

(* C6: the output packet of a successful transform is as long as            *)
(* output_length gives for the input length and the mode the packet was     *)
(* encrypted with.                                                          *)
C6_OutputLengthOfModeUsed ==
  Succeeded => Len(outbuf) = OutSize(last.enc, last.len, 0)

(* C7: the nonce rebuilt from the output packet alone is the nonce the      *)
(* packet was sealed with, opening output[12 .. 12+N+16] under the session  *)
(* key and that nonce yields input[12..], and the LITE trailer is the       *)
(* big-endian value of the counter used for the packet.                     *)
C7_RoundTrip ==
  Succeeded =>
    LET n == ReconstructedNonce(last.enc, outbuf)
        region == SubSeq(outbuf, RTP_HEADER_SIZE + 1,
                         last.len + crypto_secretbox_MACBYTES)
    IN /\ IsBytes(NonceCells(last.enc, outbuf))
       /\ n = outbox.n
       /\ SecretboxOpen(region, n, key) = InData(inbuf)
       /\ last.enc = GST_DISCORDCRYPTO_XSALSA20_POLY1305_LITE =>
            ReadBE32(LiteTrailer) = sealed[Len(sealed)].hi

(* C8: a transform that returns an error leaves key, mode and LITE counter  *)
(* as they were before the call.                                            *)
C8_FailureLeavesSession ==
  [][ (last'.op = "transform" /\ flow' = "GST_FLOW_ERROR")
        => (key' = key /\ encryption' = encryption
            /\ lite_nonce' = lite_nonce) ]_vars

C8_FailedAfterLitePackets ==
  /\ Failed
  /\ last.enc = GST_DISCORDCRYPTO_XSALSA20_POLY1305_LITE
  /\ lite_nonce # U32Zero

(* C9: a transform that returns an error has written no byte of the output  *)
(* buffer.                                                                  *)
C9_NoWriteOnFailure ==
  Failed => outbuf = gst_buffer_new_allocate(Len(outbuf))

C9_FailedWithOutputMapped ==
  Failed /\ last.out_ok /\ ~last.in_ok /\ Len(outbuf) > 0

(* C10: two STANDARD-mode encryptions of the same input packet under the    *)
(* same key give the same output, whatever happened in between.             *)
C10_StandardSameOutput ==
  ( /\ Succeeded
    /\ last.enc = GST_DISCORDCRYPTO_XSALSA20_POLY1305
    /\ inbuf = std_first.inp
    /\ key = std_first.key )
  => (outbuf = std_first.cells /\ outbox = std_first.box)

(* C11: a session whose encryption mode was never set reads back            *)
(* xsalsa20_poly1305_lite and encrypts its packets with the LITE layout     *)
(* (output length L + 16 + 4, 4-byte counter trailer).                      *)
C11_DefaultModeIsLite ==
  ~mode_set =>
    /\ last.op = "get_encryption" =>
         last.enc = GST_DISCORDCRYPTO_XSALSA20_POLY1305_LITE
    /\ Succeeded =>
         /\ last.enc = GST_DISCORDCRYPTO_XSALSA20_POLY1305_LITE
         /\ Len(outbuf) = last.len + crypto_secretbox_MACBYTES
                            + LITE_TRAILER_SIZE
         /\ IsBytes(LastCells(outbuf, LITE_TRAILER_SIZE))

(* C12: when the initialisation of libsodium fails, start reports failure;  *)
(* no packet is handed to prepare_output_buffer or transform unless the     *)
(* element is started and the initialisation has succeeded earlier.         *)
C12_NoTransformWithoutInit ==
  /\ (last.op = "start" /\ last.len = -1) => ~started
  /\ (IsTransform \/ last.op = "prepare_output_buffer" \/ pc = "prepared")
       => (started /\ sodium_ok)

C12_StartFailed ==
  last.op = "start" /\ last.len = -1 /\ ~started /\ ~sodium_ok

(* C13: for every successfully encrypted packet, in every mode,             *)
(* output[0..12] equals input[0..12] byte for byte, and the input packet is *)
(* left as it was.                                                          *)
C13_HeaderForwarded ==
  Succeeded =>
    /\ SubSeq(outbuf, 1, RTP_HEADER_SIZE)
         = ByteCells(SubSeq(inbuf, 1, RTP_HEADER_SIZE))
    /\ inbuf \in Packets

\* the mode prepare_output_buffer computed the current outsize for
PreparedMode(in_size, size) ==
  IF \E e \in GstDiscordcryptoPattern : OutSize(e, in_size, -1) = size
  THEN CHOOSE e \in GstDiscordcryptoPattern : OutSize(e, in_size, -1) = size
  ELSE -1

\* the byte range [lo, hi) of the output buffer
Range(lo, hi) == {i \in lo .. hi - 1 : TRUE}

(* C14: the mode read by transform is the mode the outsize of the packet    *)
(* was computed for, so that the trailer never overlaps the box region      *)
(* [12, 12+N+16) and nothing is written past outsize, also when             *)
(* set_property(encryption) runs between the two callbacks.                 *)
C14_ModeOfTransformIsModeOfOutsize ==
  Succeeded =>
    LET N == last.len - RTP_HEADER_SIZE
        off == TrailerOffset(last.enc, outsize)
        tr == Len(Trailer(last.enc, Zeros(crypto_secretbox_NONCEBYTES)))
    IN /\ PreparedMode(last.len, outsize) = last.enc
       /\ Range(off, off + tr)
            \cap Range(RTP_HEADER_SIZE,
                       RTP_HEADER_SIZE + N + crypto_secretbox_MACBYTES) = {}
       /\ ~last.oob

(* C15: the LITE counter changes only in a successful LITE encryption (or   *)
(* an accepted key assignment): encryptions in the other modes, mode        *)
(* changes, rejected key sets, property reads, start and stop leave it as   *)
(* it was, so the trailer of a LITE packet is the number of LITE packets    *)
(* the session encrypted before it, mod 2^32, the first one 00 00 00 00.    *)
C15_CounterCountsLitePackets ==
  [][ /\ lite_nonce' # lite_nonce =>
           \/ LiteSucceeded'
           \/ last'.op = "set_key" /\ ~last'.err
      /\ LiteSucceeded' => ReadBE32(LiteTrailer') = U32Dec(lite_count') ]_vars
C15_LiteAfterOtherMode ==
  /\ LiteSucceeded
  /\ std_first # NoOutput
  /\ lite_count = <<0, 2>>
  /\ LiteTrailer = <<0, 0, 0, 1>>

(* C16: a key assignment of fewer than 32 values is rejected and leaves the *)
(* stored key, the mode and the LITE counter as they were; a session that   *)
(* had a valid key keeps encrypting under it.                               *)
C16_RejectedKeyLeavesSession ==
  [][ /\ (last'.op = "set_key" /\ last'.len < KEY_SIZE) =>
           /\ last'.err
           /\ key' = key
           /\ encryption' = encryption
           /\ lite_nonce' = lite_nonce
      /\ Succeeded' => outbox'.k = key ]_vars
C16_RejectedAfterValidKey ==
  /\ last.op = "set_key" /\ last.len < KEY_SIZE /\ last.err
  /\ key_set
  /\ key = KeyArray(1, KEY_SIZE)
  /\ lite_nonce # U32Zero

(* C17: for every packet transform processes, the payload length handed to *)
(* the secretbox call is the input size minus 12 computed without unsigned  *)
(* wraparound: no input shorter than the 12-byte RTP header reaches the     *)
(* header copy or the secretbox call.                                       *)
C17_PayloadLengthNoWraparound ==
  (IsTransform /\ ~MapFailed(last.in_ok, last.out_ok)) =>
    /\ last.len >= RTP_HEADER_SIZE
    /\ DataSize(last.len) = <<0, last.len - RTP_HEADER_SIZE>>

(* C18: on every return path of transform, success and GST_FLOW_ERROR, each *)
(* buffer that was mapped at entry has been unmapped, so that no mapping is *)
(* outstanding after any sequence of transforms.                            *)
C18_TransformUnmapsWhatItMapped ==
  (IsTransform /\ flow \in {"GST_FLOW_OK", "GST_FLOW_ERROR"}) => mapped = {}

====
